-------------------------- MODULE Spec2Model --------------------------
(***************************************************************************)
(* A model of the spike-detection engine of risking_map                    *)
(* (src/graphml_to_spikes.py): risk classification of one event,           *)
(* extraction of the daily count table from the event graph, and           *)
(* detection of spikes against a trailing baseline.                        *)
(*                                                                         *)
(* Text is modelled as a sequence of characters (one-character strings),   *)
(* so that strip, slicing, upper-casing and substring search are computed  *)
(* as Python computes them.  An optional value (Python's None, an absent   *)
(* node attribute) is the record None; a present string is Str(chars).     *)
(* A raised exception is modelled by its class name in place of the        *)
(* returned value.                                                         *)
(***************************************************************************)
EXTENDS Integers, Sequences, FiniteSets, TLC

VARIABLES
    pc,                 \* position of the running operation
    cameo,              \* classify_event_risk: argument cameo
    theme_labels,       \* classify_event_risk: argument theme_labels
    risk_type,          \* classify_event_risk: returned value (or exception)
    calls,              \* classify_event_risk: helpers it called, in order
    G,                  \* graphml_to_daily_counts: the loaded graph (node list)
    node_i,             \* graphml_to_daily_counts: nodes of G visited so far
    rows,               \* graphml_to_daily_counts: the list rows
    df_daily,           \* the daily count table (returned / passed in)
    error,              \* exception raised by the running operation, or "None"
    as_of,              \* detect_spikes: argument as_of (a datetime)
    baseline_days,      \* detect_spikes: argument baseline_days
    min_baseline_mean,  \* detect_spikes: argument min_baseline_mean
    min_delta_rel,      \* detect_spikes: argument min_delta_rel
    merged,             \* detect_spikes: today/baseline join before the filters
    spikes,             \* detect_spikes: returned frame (sequence of records)
    kind,               \* sort_values: how this build orders equal keys
    history,            \* detect_spikes: the calls made so far, with results
    delta_percent,      \* classify_severity / infer_level: the argument
    severity,           \* classify_severity: returned value
    level,              \* infer_level: returned value
    max_retries,        \* send_discord_payload: argument max_retries
    attempt,            \* send_discord_payload: loop variable attempt
    last_err,           \* send_discord_payload: local last_err
    posts,              \* send_discord_payload: outcome of each POST, in order
    csv,                \* load_spike_events_from_csv: rows of the file read
    min_today,          \* load_spike_events_from_csv: argument min_today
    min_baseline,       \* load_spike_events_from_csv: argument min_baseline
    min_delta_percent,  \* load_spike_events_from_csv: argument
    events              \* load_spike_events_from_csv: returned list

vars == << pc, cameo, theme_labels, risk_type, calls, G, node_i, rows,
           df_daily, error, as_of, baseline_days, min_baseline_mean,
           min_delta_rel, merged, spikes, kind, history, delta_percent,
           severity, level, max_retries, attempt, last_err, posts, csv,
           min_today, min_baseline, min_delta_percent, events >>

classifyVars == << cameo, theme_labels, risk_type, calls >>
graphVars == << G, node_i, rows >>
detectVars == << as_of, baseline_days, min_baseline_mean, min_delta_rel,
                 merged, spikes, kind, history >>
labelVars == << delta_percent, severity, level >>
sendVars == << max_retries, attempt, last_err, posts >>
loadVars == << csv, min_today, min_baseline, min_delta_percent, events >>
notifyVars == << labelVars, sendVars, loadVars >>

-----------------------------------------------------------------------------
(* Python values *)

None == [tag |-> "None"]
Str(chars) == [tag |-> "str", chars |-> chars]

\* Python truthiness of an optional string: None and "" are falsy.
Truthy(v) == v.tag = "str" /\ v.chars # << >>

NoneResult == "None"
ValueError == "ValueError"
RuntimeError == "RuntimeError"
NoError == "None"

-----------------------------------------------------------------------------
(* Characters and strings *)

AsciiDigits == {"0", "1", "2", "3", "4", "5", "6", "7", "8", "9"}

\* U+00B2 SUPERSCRIPT TWO: str.isdigit() is True for it, int() rejects it.
SUP2 == "sup2"

Whitespace == {" ", "\t", "\n"}

DigitValue ==
    [c \in AsciiDigits |->
        CASE c = "0" -> 0 [] c = "1" -> 1 [] c = "2" -> 2 [] c = "3" -> 3
          [] c = "4" -> 4 [] c = "5" -> 5 [] c = "6" -> 6 [] c = "7" -> 7
          [] c = "8" -> 8 [] c = "9" -> 9]

\* str.isdigit(): non-empty and every character has the Unicode digit property.
isdigit(s) == s # << >> /\ \A i \in 1..Len(s) : s[i] \in AsciiDigits \cup {SUP2}

\* Whether int(s) returns (it raises ValueError otherwise), for s without
\* sign, whitespace or underscore.
IsDecimal(s) == s # << >> /\ \A i \in 1..Len(s) : s[i] \in AsciiDigits

\* int(s) for a string s of decimal digits.
RECURSIVE IntOf(_)
IntOf(s) ==
    IF s = << >> THEN 0
    ELSE 10 * IntOf(SubSeq(s, 1, Len(s) - 1)) + DigitValue[s[Len(s)]]

RECURSIVE lstrip(_)
lstrip(s) ==
    IF s # << >> /\ s[1] \in Whitespace THEN lstrip(Tail(s)) ELSE s

RECURSIVE rstrip(_)
rstrip(s) ==
    IF s # << >> /\ s[Len(s)] \in Whitespace
    THEN rstrip(SubSeq(s, 1, Len(s) - 1)) ELSE s

strip(s) == rstrip(lstrip(s))

\* s[:n]
Prefix(s, n) == SubSeq(s, 1, IF Len(s) < n THEN Len(s) ELSE n)

LowerToUpper ==
    [a |-> "A", b |-> "B", c |-> "C", d |-> "D", e |-> "E", f |-> "F",
     g |-> "G", h |-> "H", i |-> "I", j |-> "J", k |-> "K", l |-> "L",
     m |-> "M", n |-> "N", o |-> "O", p |-> "P", q |-> "Q", r |-> "R",
     s |-> "S", t |-> "T", u |-> "U", v |-> "V", w |-> "W", x |-> "X",
     y |-> "Y", z |-> "Z"]

upper(s) ==
    [i \in 1..Len(s) |->
        IF s[i] \in DOMAIN LowerToUpper THEN LowerToUpper[s[i]] ELSE s[i]]

\* Python's `sub in t` on strings.
IsSubstring(sub, t) ==
    \E i \in 0..(Len(t) - Len(sub)) : SubSeq(t, i + 1, i + Len(sub)) = sub

-----------------------------------------------------------------------------
(* Risk categories *)

RISK_MILITARY == "MILITARY"
RISK_CIVIL_UNREST == "CIVIL_UNREST"
RISK_POLITICAL == "POLITICAL"
RISK_ECONOMIC == "ECONOMIC"
RISK_NATURAL_DISASTER == "NATURAL_DISASTER"
RISK_OTHER == "OTHER"

RiskCategories ==
    {RISK_MILITARY, RISK_CIVIL_UNREST, RISK_POLITICAL, RISK_ECONOMIC,
     RISK_NATURAL_DISASTER, RISK_OTHER}

-----------------------------------------------------------------------------
(* _classify_by_cameo *)

\* A faulty variant (against C3): the root is taken from the code as given,
\* unstripped.
CameoRootStrNoStrip(code) == Prefix(code, 2)

\* root_str: the first two characters of the stripped code.
CameoRootStr(code) == Prefix(strip(code), 2)

CameoRootTable(root) ==
    IF root \in {18, 19, 20, 15, 17} THEN RISK_MILITARY
    ELSE IF root = 14 THEN RISK_CIVIL_UNREST
    ELSE IF root \in {10, 11, 12, 13, 16} THEN RISK_POLITICAL
    ELSE IF root \in {6, 7} THEN RISK_ECONOMIC
    ELSE NoneResult

\* A category, NoneResult, or ValueError when int(root_str) raises.
_classify_by_cameo(code) ==
    IF ~Truthy(code) THEN NoneResult
    ELSE LET root_str == CameoRootStr(code.chars)
         IN  IF ~isdigit(root_str) THEN NoneResult
             ELSE IF ~IsDecimal(root_str) THEN ValueError
             ELSE CameoRootTable(IntOf(root_str))

-----------------------------------------------------------------------------
(* _classify_by_theme_labels *)

KW_NATURAL_DISASTER ==
    << <<"N","A","T","U","R","A","L","_","D","I","S","A","S","T","E","R">>,
       <<"E","A","R","T","H","Q","U","A","K","E">>,
       <<"F","L","O","O","D">>,
       <<"T","Y","P","H","O","O","N">>,
       <<"H","U","R","R","I","C","A","N","E">>,
       <<"T","S","U","N","A","M","I">>,
       <<"W","I","L","D","F","I","R","E">>,
       <<"L","A","N","D","S","L","I","D","E">> >>

KW_MILITARY ==
    << <<"M","I","L","I","T","A","R","Y">>,
       <<"A","R","M","E","D","C","O","N","F","L","I","C","T">>,
       <<"W","A","R">>,
       <<"I","N","V","A","S","I","O","N">>,
       <<"M","I","S","S","I","L","E">>,
       <<"A","I","R","S","T","R","I","K","E">>,
       <<"B","O","M","B","A","R","D">> >>

KW_CIVIL_UNREST ==
    << <<"P","R","O","T","E","S","T">>,
       <<"D","E","M","O","N","S","T","R","A","T","I","O","N">>,
       <<"S","T","R","I","K","E">>,
       <<"R","I","O","T">>,
       <<"M","O","B","I","L","I","Z","A","T","I","O","N">> >>

KW_TERROR ==
    << <<"T","E","R","R","O","R">>,
       <<"T","E","R","R","O","R","I","S","M">>,
       <<"B","O","M","B","I","N","G">>,
       <<"I","N","S","U","R","G","E","N","C","Y">> >>

KW_POLITICAL ==
    << <<"E","L","E","C","T","I","O","N">>,
       <<"G","O","V","E","R","N","M","E","N","T">>,
       <<"C","O","U","P">>,
       <<"R","E","G","I","M","E">>,
       <<"P","A","R","L","I","A","M","E","N","T">>,
       <<"S","A","N","C","T","I","O","N">> >>

KW_ECONOMIC ==
    << <<"E","C","O","N","O","M","Y">>,
       <<"T","R","A","D","E">>,
       <<"S","A","N","C","T","I","O","N">>,
       <<"T","A","R","I","F","F">>,
       <<"E","X","P","O","R","T">>,
       <<"I","M","P","O","R","T">> >>

\* any(any(s in t for s in substrings) for t in up)
contains_any(up, substrings) ==
    \E i \in 1..Len(up) : \E j \in 1..Len(substrings) :
        IsSubstring(substrings[j], up[i])

\* A faulty variant (against C4): the terror bucket is tried before the
\* protest bucket.
ThemeBucketsTerrorFirst(labels) ==
    LET up == [i \in 1..Len(labels) |-> upper(labels[i])]
    IN  IF labels = << >> THEN NoneResult
        ELSE IF contains_any(up, KW_NATURAL_DISASTER) THEN RISK_NATURAL_DISASTER
        ELSE IF contains_any(up, KW_MILITARY) THEN RISK_MILITARY
        ELSE IF contains_any(up, KW_TERROR) THEN RISK_MILITARY
        ELSE IF contains_any(up, KW_CIVIL_UNREST) THEN RISK_CIVIL_UNREST
        ELSE IF contains_any(up, KW_POLITICAL) THEN RISK_POLITICAL
        ELSE IF contains_any(up, KW_ECONOMIC) THEN RISK_ECONOMIC
        ELSE NoneResult

_classify_by_theme_labels(labels) ==
    LET up == [i \in 1..Len(labels) |-> upper(labels[i])]
    IN  IF labels = << >> THEN NoneResult
        ELSE IF contains_any(up, KW_NATURAL_DISASTER) THEN RISK_NATURAL_DISASTER
        ELSE IF contains_any(up, KW_MILITARY) THEN RISK_MILITARY
        ELSE IF contains_any(up, KW_CIVIL_UNREST) THEN RISK_CIVIL_UNREST
        ELSE IF contains_any(up, KW_TERROR) THEN RISK_MILITARY
        ELSE IF contains_any(up, KW_POLITICAL) THEN RISK_POLITICAL
        ELSE IF contains_any(up, KW_ECONOMIC) THEN RISK_ECONOMIC
        ELSE NoneResult

-----------------------------------------------------------------------------
(* classify_event_risk *)

\* A faulty variant (against C2): the theme step is tried before the CAMEO
\* step.
ClassifyThemeFirst(code, labels) ==
    LET by_theme == _classify_by_theme_labels(labels)
        by_cameo == _classify_by_cameo(code)
    IN  IF labels # << >> /\ by_theme # NoneResult
        THEN [ret |-> by_theme, calls |-> << "_classify_by_theme_labels" >>]
        ELSE IF Truthy(code) /\ by_cameo # NoneResult
        THEN [ret |-> by_cameo, calls |-> << "_classify_by_cameo" >>]
        ELSE [ret |-> RISK_OTHER, calls |-> << >>]

\* One call of classify_event_risk: what it returns (ret: a category, or the
\* exception that escapes it) and the helpers it called, in order.
classify_event_risk_call(code, labels) ==
    LET by_cameo == _classify_by_cameo(code)
        by_theme == _classify_by_theme_labels(labels)
        calls1 == IF Truthy(code) THEN << "_classify_by_cameo" >> ELSE << >>
        calls2 == IF labels # << >>
                  THEN Append(calls1, "_classify_by_theme_labels") ELSE calls1
    IN  IF Truthy(code) /\ by_cameo = ValueError
        THEN [ret |-> ValueError, calls |-> calls1]
        ELSE IF Truthy(code) /\ by_cameo # NoneResult
        THEN [ret |-> by_cameo, calls |-> calls1]
        ELSE IF labels # << >> /\ by_theme # NoneResult
        THEN [ret |-> by_theme, calls |-> calls2]
        ELSE [ret |-> RISK_OTHER, calls |-> calls2]

classify_event_risk(code, labels) == classify_event_risk_call(code, labels).ret

-----------------------------------------------------------------------------
(* Inputs of the classifier *)

MaxThemes == 2

LBL_TERROR == <<"T","E","R","R","O","R">>
LBL_protest == <<"p","r","o","t","e","s","t">>
LBL_SANCTION == <<"S","A","N","C","T","I","O","N">>
LBL_Trade == <<"T","r","a","d","e">>
LBL_FLOOD == <<"F","L","O","O","D">>
LBL_AWARD == <<"A","W","A","R","D">>
LBL_Airstrike == <<"A","i","r","s","t","r","i","k","e">>
LBL_HEALTH == <<"H","E","A","L","T","H">>

ThemeLabelUniverse ==
    {LBL_TERROR, LBL_protest, LBL_SANCTION, LBL_Trade, LBL_FLOOD, LBL_AWARD,
     LBL_Airstrike, LBL_HEALTH}

ThemeInputs == UNION {[1..n -> ThemeLabelUniverse] : n \in 0..MaxThemes}

FewThemeInputs == {<< >>, <<LBL_TERROR>>, <<LBL_protest, LBL_TERROR>>, <<LBL_HEALTH>>}

\* Every two-digit code, and codes with whitespace, letters, one character,
\* three digits and a non-decimal digit.
CameoInputs ==
    {None, Str(<< >>)}
    \cup {Str(<<a, b>>) : a \in AsciiDigits, b \in AsciiDigits}
    \cup {Str(<<"7">>), Str(<<"6">>), Str(<<"1">>), Str(<<"a">>), Str(<<" ">>),
          Str(<<" ", "1", "4">>), Str(<<"1", "4", " ">>), Str(<<"1", " ", "4">>),
          Str(<<"1", "4", "1">>), Str(<<"0", "6", "1">>), Str(<<"1", "a">>),
          Str(<<"a", "1">>), Str(<<" ", "7">>), Str(<<"\t", "2", "0", "3">>),
          Str(<<SUP2, "3">>), Str(<<"1", SUP2>>), Str(<<SUP2>>)}

KeyCameoInputs ==
    {None, Str(<< >>), Str(<<"1", "4">>), Str(<<"1", "8">>), Str(<<"0", "7">>),
     Str(<<"9", "9">>), Str(<<"7">>), Str(<<" ", "1", "4">>), Str(<<SUP2, "3">>)}

ClassifyInputs ==
    (CameoInputs \X FewThemeInputs) \cup (KeyCameoInputs \X ThemeInputs)

-----------------------------------------------------------------------------
(* The classifier run on its own *)

IdleGraph == G = << >> /\ node_i = 0 /\ rows = << >>
IdleClassify == cameo = None /\ theme_labels = << >> /\ risk_type = NoneResult
                /\ calls = << >>
IdleDetect == as_of = 0 /\ baseline_days = 0 /\ min_baseline_mean = 0
              /\ min_delta_rel = 0 /\ merged = << >> /\ spikes = << >>
              /\ kind = << >> /\ history = << >>
IdleLabels == delta_percent = 0 /\ severity = NoneResult /\ level = NoneResult
IdleSend == max_retries = 0 /\ attempt = 0 /\ last_err = None
            /\ posts = << >>
IdleLoad == csv = None /\ min_today = 0 /\ min_baseline = 0
            /\ min_delta_percent = 0 /\ events = << >>
IdleNotify == IdleLabels /\ IdleSend /\ IdleLoad

InitClassify ==
    /\ pc = "classify_event_risk"
    /\ \E in \in ClassifyInputs : cameo = in[1] /\ theme_labels = in[2]
    /\ risk_type = NoneResult
    /\ calls = << >>
    /\ IdleGraph
    /\ IdleDetect
    /\ IdleNotify
    /\ df_daily = << >>
    /\ error = NoError

ClassifyEventRisk ==
    /\ pc = "classify_event_risk"
    /\ LET call == classify_event_risk_call(cameo, theme_labels)
       IN  /\ calls' = call.calls
           /\ IF call.ret = ValueError
              THEN risk_type' = NoneResult /\ error' = ValueError
              ELSE risk_type' = call.ret /\ error' = NoError
    /\ pc' = IF classify_event_risk_call(cameo, theme_labels).ret = ValueError
             THEN "classify_event_risk_raised" ELSE "classify_event_risk_returned"
    /\ UNCHANGED << cameo, theme_labels, graphVars, detectVars, notifyVars,
                    df_daily >>

NextClassify == ClassifyEventRisk

SpecClassify == InitClassify /\ [][NextClassify]_vars

-----------------------------------------------------------------------------
(* Dates: datetime.strptime(s, "%Y%m%d").date() *)

NonZeroDigits == AsciiDigits \ {"0"}

IsLeap(y) == (y % 4 = 0 /\ y % 100 # 0) \/ y % 400 = 0

DaysInMonth(y, m) ==
    IF m = 2 THEN (IF IsLeap(y) THEN 29 ELSE 28)
    ELSE IF m \in {4, 6, 9, 11} THEN 30 ELSE 31

RECURSIVE DaysBeforeMonth(_, _)
DaysBeforeMonth(y, m) ==
    IF m = 1 THEN 0 ELSE DaysBeforeMonth(y, m - 1) + DaysInMonth(y, m - 1)

\* date.toordinal(): a date is modelled by its proleptic Gregorian ordinal,
\* so that timedelta arithmetic and comparison are those of integers.
toordinal(y, m, d) ==
    LET y1 == y - 1
    IN  y1 * 365 + (y1 \div 4) - (y1 \div 100) + (y1 \div 400)
        + DaysBeforeMonth(y, m) + d

\* Length of the text the %d directive matches at the head of s:
\* 3[0-1] | [1-2]\d | 0[1-9] | [1-9] | " "[1-9], first alternative first.
DayDirectiveLen(s) ==
    IF Len(s) >= 2 /\ s[1] = "3" /\ s[2] \in {"0", "1"} THEN 2
    ELSE IF Len(s) >= 2 /\ s[1] \in {"1", "2"} /\ s[2] \in AsciiDigits THEN 2
    ELSE IF Len(s) >= 2 /\ s[1] = "0" /\ s[2] \in NonZeroDigits THEN 2
    ELSE IF Len(s) >= 1 /\ s[1] \in NonZeroDigits THEN 1
    ELSE IF Len(s) >= 2 /\ s[1] = " " /\ s[2] \in NonZeroDigits THEN 2
    ELSE 0

\* Length of the text the %m directive matches at the head of s, given that
\* %d must match what follows: 1[0-2] | 0[1-9] | [1-9], with backtracking.
MonthDirectiveLen(s) ==
    LET two == Len(s) >= 2 /\ \/ (s[1] = "1" /\ s[2] \in {"0", "1", "2"})
                              \/ (s[1] = "0" /\ s[2] \in NonZeroDigits)
        one == Len(s) >= 1 /\ s[1] \in NonZeroDigits
    IN  IF two /\ DayDirectiveLen(SubSeq(s, 3, Len(s))) > 0 THEN 2
        ELSE IF one /\ DayDirectiveLen(SubSeq(s, 2, Len(s))) > 0 THEN 1
        ELSE 0

\* [ok |-> FALSE] when strptime raises ValueError (no match, unconverted data
\* remains, day out of range for month, year 0), else the parsed date.
strptime_Ymd(s) ==
    IF Len(s) < 4 \/ ~IsDecimal(SubSeq(s, 1, 4)) THEN [ok |-> FALSE]
    ELSE LET rest == SubSeq(s, 5, Len(s))
             mlen == MonthDirectiveLen(rest)
             dtxt == SubSeq(rest, mlen + 1, Len(rest))
             dlen == DayDirectiveLen(dtxt)
         IN  IF mlen = 0 \/ 4 + mlen + dlen # Len(s) THEN [ok |-> FALSE]
             ELSE LET y == IntOf(SubSeq(s, 1, 4))
                      m == IntOf(SubSeq(rest, 1, mlen))
                      d == IntOf(SelectSeq(dtxt, LAMBDA c : c # " "))
                  IN  IF y < 1 \/ d > DaysInMonth(y, m) THEN [ok |-> FALSE]
                      ELSE [ok |-> TRUE, date |-> toordinal(y, m, d)]

\* pd.to_datetime(date): the timestamp at midnight of a date; a timestamp is
\* a date and a time of day (hours).
Timestamp(date, hour) == [date |-> date, hour |-> hour]
to_datetime(date) == Timestamp(date, 0)

-----------------------------------------------------------------------------
(* Ordering of strings, for groupby and sort_values *)

UpperLetters ==
    <<"A","B","C","D","E","F","G","H","I","J","K","L","M",
      "N","O","P","Q","R","S","T","U","V","W","X","Y","Z">>

\* Code point order among the characters of country codes and categories.
CharRank(c) ==
    IF c = "_" THEN 27
    ELSE IF \E i \in 1..26 : UpperLetters[i] = c
         THEN CHOOSE i \in 1..26 : UpperLetters[i] = c
         ELSE 0

RECURSIVE StrLess(_, _)
StrLess(a, b) ==
    IF b = << >> THEN FALSE
    ELSE IF a = << >> THEN TRUE
    ELSE IF a[1] # b[1] THEN CharRank(a[1]) < CharRank(b[1])
    ELSE StrLess(Tail(a), Tail(b))

\* The categories in string order.
RiskOrder ==
    << RISK_CIVIL_UNREST, RISK_ECONOMIC, RISK_MILITARY, RISK_NATURAL_DISASTER,
       RISK_OTHER, RISK_POLITICAL >>

RiskRank(r) == CHOOSE i \in 1..Len(RiskOrder) : RiskOrder[i] = r

\* (country_code, risk_type) key order.
PairLess(a, b) ==
    \/ StrLess(a.country_code, b.country_code)
    \/ /\ a.country_code = b.country_code
       /\ RiskRank(a.risk_type) < RiskRank(b.risk_type)

TsLess(a, b) == a.date < b.date \/ (a.date = b.date /\ a.hour < b.hour)

\* (date, country_code, risk_type) key order.
KeyLess(a, b) ==
    \/ TsLess(a.date, b.date)
    \/ (a.date = b.date /\ PairLess(a, b))

\* A finite set of strings as the sequence in string order.
RECURSIVE SortStrings(_)
SortStrings(S) ==
    IF S = {} THEN << >>
    ELSE LET first == CHOOSE x \in S : \A y \in S \ {x} : StrLess(x, y)
         IN  << first >> \o SortStrings(S \ {first})

\* A finite set of records with distinct (country_code, risk_type) keys, as
\* the sequence sorted by key (groupby sorts its group keys).
RECURSIVE SortByPair(_)
SortByPair(S) ==
    IF S = {} THEN << >>
    ELSE LET first == CHOOSE x \in S : \A y \in S \ {x} : PairLess(x, y)
         IN  << first >> \o SortByPair(S \ {first})

\* A finite set of records with distinct (date, country_code, risk_type)
\* keys, as the sequence sorted by key.
RECURSIVE SortByKey(_)
SortByKey(S) ==
    IF S = {} THEN << >>
    ELSE LET first == CHOOSE x \in S : \A y \in S \ {x} : KeyLess(x, y)
         IN  << first >> \o SortByKey(S \ {first})

-----------------------------------------------------------------------------
(* The event graph: nx.read_graphml's nodes with their attribute bags *)

EVENT_NODE_TYPE == "Event"
LOCATION_NODE_TYPE == "Location"
THEME_NODE_TYPE == "Theme"

\* A node's attribute bag: data.get(attr) is the field, None when absent.
\* The type attribute is only compared for equality and is kept whole.
Data(type, date, code, country, label) ==
    [type |-> type, date |-> date, cameo |-> code, country |-> country,
     label |-> label]

\* A node with its adjacency (read by the code for Event nodes only).
Node(id, data, nbrs) == [id |-> id, data |-> data, nbrs |-> nbrs]

\* G.nodes[nbr]
NodeAttrs(g, id) == g[CHOOSE k \in 1..Len(g) : g[k].id = id].data

\* ntype == LOCATION_NODE_TYPE and cc is truthy
IsLocationWithCountry(g, id) ==
    /\ NodeAttrs(g, id).type = LOCATION_NODE_TYPE
    /\ Truthy(NodeAttrs(g, id).country)

\* ntype == THEME_NODE_TYPE and lab is truthy
IsThemeWithLabel(g, id) ==
    /\ NodeAttrs(g, id).type = THEME_NODE_TYPE
    /\ Truthy(NodeAttrs(g, id).label)

\* A faulty variant (against C5): countries kept as a list, one entry per
\* Location node.
CountriesPerLocation(g, node) ==
    LET locs == SelectSeq(node.nbrs, LAMBDA id : IsLocationWithCountry(g, id))
    IN  [k \in 1..Len(locs) |-> NodeAttrs(g, locs[k]).country.chars]

\* countries: set[str], as the sequence the loop `for cc in countries` walks
\* (in string order here; the grouping that follows forgets the order).
countries(g, node) ==
    SortStrings({NodeAttrs(g, node.nbrs[k]).country.chars :
                    k \in {k \in 1..Len(node.nbrs) :
                             IsLocationWithCountry(g, node.nbrs[k])}})

\* theme_labels: list[str], in neighbour order.
theme_labels_of(g, node) ==
    LET ths == SelectSeq(node.nbrs, LAMBDA id : IsThemeWithLabel(g, id))
    IN  [k \in 1..Len(ths) |-> NodeAttrs(g, ths[k]).label.chars]

\* One iteration of the loop over G.nodes(data=True): "continue" (the node
\* is skipped), "append" (with the rows appended), or "raise".
VisitOutcome(g, node) ==
    IF node.data.type # EVENT_NODE_TYPE THEN [kind |-> "continue"]
    ELSE IF ~Truthy(node.data.date) THEN [kind |-> "continue"]
    ELSE LET parsed == strptime_Ymd(node.data.date.chars)
             ccs == countries(g, node)
             risk == classify_event_risk(node.data.cameo, theme_labels_of(g, node))
         IN  IF ~parsed.ok THEN [kind |-> "continue"]
             ELSE IF ccs = << >> THEN [kind |-> "continue"]
             ELSE IF risk = ValueError THEN [kind |-> "raise", error |-> ValueError]
             ELSE [kind |-> "append",
                   rows |-> [k \in 1..Len(ccs) |->
                               [date |-> to_datetime(parsed.date),
                                country_code |-> ccs[k],
                                risk_type |-> risk]]]

\* df.groupby(["date", "country_code", "risk_type"]).size()
\*   .reset_index(name="count").sort_values([...])
GroupSize(rs) ==
    SortByKey({[date |-> rs[k].date, country_code |-> rs[k].country_code,
                risk_type |-> rs[k].risk_type,
                count |-> Cardinality({j \in 1..Len(rs) : rs[j] = rs[k]})] :
                  k \in 1..Len(rs)})

-----------------------------------------------------------------------------
(* Input graphs *)

MaxEvents == 2

Chars_US == <<"U", "S">>
Chars_JP == <<"J", "P">>
D_20251124 == <<"2","0","2","5","1","1","2","4">>
D_20251123 == <<"2","0","2","5","1","1","2","3">>
D_2025113 == <<"2","0","2","5","1","1","3">>
D_20250230 == <<"2","0","2","5","0","2","3","0">>
D_iso == <<"2","0","2","5","-","1","1","-","2","4">>

LocUS1 == <<"loc", 1>>
LocUS2 == <<"loc", 2>>
LocJP == <<"loc", 3>>
LocNoCountry == <<"loc", 4>>
LocEmptyCountry == <<"loc", 5>>
ThTerror == <<"theme", 1>>
ThProtest == <<"theme", 2>>
ThNoLabel == <<"theme", 3>>
ActorJP == <<"actor", 1>>

\* The Location, Theme and other nodes every input graph holds.
FixedNodes ==
    << Node(LocUS1, Data(LOCATION_NODE_TYPE, None, None, Str(Chars_US), None), << >>),
       Node(LocUS2, Data(LOCATION_NODE_TYPE, None, None, Str(Chars_US), None), << >>),
       Node(LocJP, Data(LOCATION_NODE_TYPE, None, None, Str(Chars_JP), None), << >>),
       Node(LocNoCountry, Data(LOCATION_NODE_TYPE, None, None, None, None), << >>),
       Node(LocEmptyCountry, Data(LOCATION_NODE_TYPE, None, None, Str(<< >>), None), << >>),
       Node(ThTerror, Data(THEME_NODE_TYPE, None, None, None, Str(LBL_TERROR)), << >>),
       Node(ThProtest, Data(THEME_NODE_TYPE, None, None, None, Str(LBL_protest)), << >>),
       Node(ThNoLabel, Data(THEME_NODE_TYPE, None, None, None, None), << >>),
       Node(ActorJP, Data("Actor", Str(D_20251124), None, Str(Chars_JP), None),
            << LocJP >>) >>

\* The shapes of the variable nodes: attribute bag and neighbours.
EventShapes ==
    { \* valid events
      [data |-> Data(EVENT_NODE_TYPE, Str(D_20251124), Str(<<"1","4","1">>), None, None),
       nbrs |-> << LocUS1 >>],
      [data |-> Data(EVENT_NODE_TYPE, Str(D_20251124), None, None, None),
       nbrs |-> << LocUS1, ThTerror, LocUS2 >>],
      [data |-> Data(EVENT_NODE_TYPE, Str(D_20251124), None, None, None),
       nbrs |-> << LocUS1, ThProtest, LocJP, ThTerror, ThNoLabel >>],
      [data |-> Data(EVENT_NODE_TYPE, Str(D_20251123), Str(<<"1","9","0">>), None, None),
       nbrs |-> << LocJP, LocNoCountry >>],
      [data |-> Data(EVENT_NODE_TYPE, Str(D_20251123), None, None, None),
       nbrs |-> << LocUS2 >>],
      [data |-> Data(EVENT_NODE_TYPE, Str(D_2025113), Str(<<"0","7">>), None, None),
       nbrs |-> << LocJP, ThTerror >>],
      \* the pair (US, MILITARY) of the second shape on earlier days
      [data |-> Data(EVENT_NODE_TYPE, Str(D_20251123), Str(<<"1","9","0">>), None, None),
       nbrs |-> << LocUS1 >>],
      [data |-> Data(EVENT_NODE_TYPE, Str(D_2025113), Str(<<"1","8">>), None, None),
       nbrs |-> << LocUS2 >>],
      \* no usable date
      [data |-> Data(EVENT_NODE_TYPE, None, Str(<<"1","4">>), None, None),
       nbrs |-> << LocUS1 >>],
      [data |-> Data(EVENT_NODE_TYPE, Str(<< >>), None, None, None),
       nbrs |-> << LocUS1 >>],
      [data |-> Data(EVENT_NODE_TYPE, Str(D_iso), None, None, None),
       nbrs |-> << LocUS1 >>],
      [data |-> Data(EVENT_NODE_TYPE, Str(D_20250230), None, None, None),
       nbrs |-> << LocJP >>],
      \* no resolved country
      [data |-> Data(EVENT_NODE_TYPE, Str(D_20251124), None, None, None),
       nbrs |-> << LocNoCountry, LocEmptyCountry, ThTerror, ActorJP >>],
      [data |-> Data(EVENT_NODE_TYPE, Str(D_20251124), Str(<<SUP2, "3">>), Str(Chars_US), None),
       nbrs |-> << >>],
      \* not an Event
      [data |-> Data("Actor", Str(D_20251124), Str(<<"1","4">>), None, None),
       nbrs |-> << LocUS1 >>],
      [data |-> Data(NoneResult, Str(D_20251124), None, None, None),
       nbrs |-> << LocUS1 >>],
      \* a valid event whose action code int() rejects
      [data |-> Data(EVENT_NODE_TYPE, Str(D_20251124), Str(<<SUP2, "3">>), None, None),
       nbrs |-> << LocUS1 >>] }

\* The node list of a graph whose variable nodes have the shapes `shapes`.
GraphOf(shapes) ==
    [k \in 1..Len(shapes) |-> Node(<<"event", k>>, shapes[k].data, shapes[k].nbrs)]
    \o FixedNodes

Graphs == {GraphOf(shapes) : shapes \in UNION {[1..n -> EventShapes] : n \in 0..MaxEvents}}

-----------------------------------------------------------------------------
(* graphml_to_daily_counts *)

InitGraph ==
    /\ pc = "graphml_to_daily_counts"
    /\ G \in Graphs
    /\ node_i = 0
    /\ rows = << >>
    /\ df_daily = << >>
    /\ error = NoError
    /\ IdleClassify
    /\ IdleDetect
    /\ IdleNotify

\* One iteration of `for node_id, data in G.nodes(data=True)`.
VisitNode ==
    /\ pc = "graphml_to_daily_counts"
    /\ node_i < Len(G)
    /\ LET out == VisitOutcome(G, G[node_i + 1])
       IN  /\ rows' = IF out.kind = "append" THEN rows \o out.rows ELSE rows
           /\ error' = IF out.kind = "raise" THEN out.error ELSE error
           /\ pc' = IF out.kind = "raise" THEN "graphml_to_daily_counts_raised" ELSE pc
    /\ node_i' = node_i + 1
    /\ UNCHANGED << G, df_daily, classifyVars, detectVars, notifyVars >>

\* After the loop: raise on no rows, else group, count and sort.
FinishDailyCounts ==
    /\ pc = "graphml_to_daily_counts"
    /\ node_i = Len(G)
    /\ IF rows = << >>
       THEN pc' = "graphml_to_daily_counts_raised" /\ error' = RuntimeError /\ df_daily' = df_daily
       ELSE pc' = "graphml_to_daily_counts_returned" /\ error' = error /\ df_daily' = GroupSize(rows)
    /\ UNCHANGED << G, node_i, rows, classifyVars, detectVars, notifyVars >>

NextGraph == VisitNode \/ FinishDailyCounts

SpecGraph == InitGraph /\ [][NextGraph]_vars

-----------------------------------------------------------------------------
(* Floating-point values of detect_spikes, kept exact: a finite value is the
   fraction num/den in lowest terms with den > 0; NaN and +inf are apart. *)

RECURSIVE GCD(_, _)
GCD(a, b) == IF b = 0 THEN a ELSE GCD(b, a % b)

Abs(n) == IF n < 0 THEN -n ELSE n

NaN == [kind |-> "nan"]
PosInf == [kind |-> "inf"]

\* n/d for d # 0.
Frac(n, d) ==
    LET g == GCD(Abs(n), Abs(d))
        sgn == IF d < 0 THEN -1 ELSE 1
    IN  [kind |-> "num", num |-> sgn * (n \div g), den |-> sgn * (d \div g)]

IsNum(x) == x.kind = "num"

\* x >= y for a float x and a finite y (False when x is NaN).
FloatGe(x, y) ==
    \/ x.kind = "inf"
    \/ (IsNum(x) /\ x.num * y.den >= y.num * x.den)

\* x > y among floats that are not NaN, for sort_values.
FloatGt(x, y) ==
    \/ (x.kind = "inf" /\ y.kind # "inf")
    \/ (IsNum(x) /\ IsNum(y) /\ x.num * y.den > y.num * x.den)

FloatAbs(x) == IF IsNum(x) THEN Frac(Abs(x.num), x.den) ELSE x

\* A faulty variant (against C15): the percentage is cut to a whole number.
DeltaPercentTruncated(today, baseline) ==
    LET diff == today * baseline.den - baseline.num
    IN  IF baseline.num # 0
        THEN Frac(IF diff >= 0 THEN (diff * 100) \div baseline.num
                  ELSE -((-diff * 100) \div baseline.num), 1)
        ELSE IF diff = 0 THEN NaN
        ELSE PosInf

\* (today - baseline) / baseline * 100.0 for an integer today >= 0 and a
\* baseline that is finite and >= 0: division by 0.0 gives inf, 0.0/0.0 NaN.
DeltaPercent(today, baseline) ==
    LET diff == today * baseline.den - baseline.num  \* (today - baseline) * den
    IN  IF baseline.num # 0 THEN Frac(diff * 100, baseline.num)
        ELSE IF diff = 0 THEN NaN
        ELSE PosInf

-----------------------------------------------------------------------------
(* detect_spikes *)

\* df_daily["date"] = pd.to_datetime(df_daily["date"]).dt.date, on a copy.
DatesOnly(df) ==
    [k \in 1..Len(df) |-> [df[k] EXCEPT !.date = df[k].date.date]]

\* A faulty variant (against C8): the baseline window runs up to as_of
\* itself.
BaseEndAsOf(as_of_date) == as_of_date

base_start(as_of_date, days) == as_of_date - days
base_end(as_of_date) == as_of_date - 1

df_today(df, as_of_date) == SelectSeq(df, LAMBDA r : r.date = as_of_date)

df_base(df, as_of_date, days) ==
    SelectSeq(df, LAMBDA r : r.date >= base_start(as_of_date, days)
                             /\ r.date <= base_end(as_of_date))

\* A faulty variant (against C9): the fallback history is the whole table.
AllHistory(df, as_of_date) == df

df_all_before(df, as_of_date) == SelectSeq(df, LAMBDA r : r.date < as_of_date)

PairOf(r) == [country_code |-> r.country_code, risk_type |-> r.risk_type]
PairsIn(df) == {PairOf(df[k]) : k \in 1..Len(df)}
RowsOfPair(df, pair) == SelectSeq(df, LAMBDA r : PairOf(r) = pair)

RECURSIVE SumCount(_)
SumCount(df) == IF df = << >> THEN 0 ELSE df[1].count + SumCount(Tail(df))

\* A faulty variant (against C21): the mean counts one more day, without
\* events.
MeanWithEmptyDay(df) == Frac(SumCount(df), Len(df) + 1)

\* groupby(["country_code", "risk_type"])["count"].mean() of one group.
MeanCount(df) == Frac(SumCount(df), Len(df))

\* agg_today: groupby(...)["count"].sum(), keys sorted.
agg_today(today_rows) ==
    SortByPair({[country_code |-> pair.country_code,
                 risk_type |-> pair.risk_type,
                 today |-> SumCount(RowsOfPair(today_rows, pair))] :
                    pair \in PairsIn(today_rows)})

\* pd.merge(agg_today, agg_base, how="left"): baseline is NaN where the pair
\* has no group in `base`.
LeftJoinMean(agg, base) ==
    [k \in 1..Len(agg) |->
        [country_code |-> agg[k].country_code,
         risk_type |-> agg[k].risk_type,
         today |-> agg[k].today,
         baseline |-> IF PairOf(agg[k]) \in PairsIn(base)
                      THEN MeanCount(RowsOfPair(base, PairOf(agg[k])))
                      ELSE NaN]]

\* need_fallback.any(): merge fb and fillna the NaN baselines from it.
FillFallback(mrg, before) ==
    [k \in 1..Len(mrg) |->
        IF mrg[k].baseline = NaN /\ PairOf(mrg[k]) \in PairsIn(before)
        THEN [mrg[k] EXCEPT !.baseline = MeanCount(RowsOfPair(before, PairOf(mrg[k])))]
        ELSE mrg[k]]

\* A faulty variant (against C10): a baseline still missing is taken to be
\* zero.
FillnaZero(mrg) ==
    [k \in 1..Len(mrg) |->
        IF mrg[k].baseline = NaN THEN [mrg[k] EXCEPT !.baseline = Frac(0, 1)]
        ELSE mrg[k]]

\* merged.dropna(subset=["baseline"])
dropna(mrg) == SelectSeq(mrg, LAMBDA r : r.baseline # NaN)

\* A faulty variant (against C11): a baseline equal to the minimum is dropped
\* too.
FilterBaselineStrict(mrg, min_mean) ==
    SelectSeq(mrg, LAMBDA r : FloatGt(r.baseline, min_mean))

\* merged[merged["baseline"] >= min_baseline_mean]
FilterBaseline(mrg, min_mean) ==
    SelectSeq(mrg, LAMBDA r : FloatGe(r.baseline, min_mean))

WithDelta(mrg) ==
    [k \in 1..Len(mrg) |->
        [country_code |-> mrg[k].country_code,
         risk_type |-> mrg[k].risk_type,
         today |-> mrg[k].today,
         baseline |-> mrg[k].baseline,
         delta_percent |-> DeltaPercent(mrg[k].today, mrg[k].baseline)]]

\* A faulty variant (against C12): the threshold looks at increases only.
FilterDeltaIncreasesOnly(mrg, min_rel) ==
    SelectSeq(mrg, LAMBDA r :
        FloatGe(r.delta_percent, Frac(min_rel.num * 100, min_rel.den)))

\* merged[merged["delta_percent"].abs() >= min_delta_rel * 100.0]
FilterDelta(mrg, min_rel) ==
    SelectSeq(mrg, LAMBDA r :
        FloatGe(FloatAbs(r.delta_percent), Frac(min_rel.num * 100, min_rel.den)))

\* merged.sort_values("delta_percent", ascending=False): the default sort
\* kind is not stable, so rows with equal delta_percent come in an order the
\* build decides; every descending arrangement is an outcome.
sort_values_desc(mrg) ==
    {[k \in 1..Len(mrg) |-> mrg[perm[k]]] :
        perm \in {f \in [1..Len(mrg) -> 1..Len(mrg)] :
                    /\ \A a, b \in 1..Len(mrg) : a # b => f[a] # f[b]
                    /\ \A a \in 1..(Len(mrg) - 1) :
                          ~FloatGt(mrg[f[a + 1]].delta_percent,
                                   mrg[f[a]].delta_percent)}}

\* merged.sort_values("delta_percent", ascending=False) as one build
\* performs it: the same rows in, the same order out. The build `knd` ranks
\* the positions of the rows handed to the sort, and rows of equal
\* delta_percent come out by the rank of their position.
sort_values(mrg, knd) ==
    LET Pos(r) == CHOOSE k \in 1..Len(mrg) : mrg[k] = r
        Rank(r) == IF Pos(r) \in DOMAIN knd THEN knd[Pos(r)] ELSE Pos(r)
    IN  CHOOSE out \in sort_values_desc(mrg) :
            \A a, b \in 1..Len(out) :
                (a < b /\ ~FloatGt(out[a].delta_percent, out[b].delta_percent))
                    => Rank(out[a]) < Rank(out[b])

\* merged.insert(0, "as_of", as_of_date)
WithAsOf(mrg, as_of_date) ==
    [k \in 1..Len(mrg) |->
        [as_of |-> as_of_date,
         country_code |-> mrg[k].country_code,
         risk_type |-> mrg[k].risk_type,
         today |-> mrg[k].today,
         baseline |-> mrg[k].baseline,
         delta_percent |-> mrg[k].delta_percent]]

\* The local `merged` once the fallback has been filled in (line 358), for a
\* table with rows on as_of.
MergedWithBaseline(df, as_of_date, days) ==
    LET joined == LeftJoinMean(agg_today(df_today(df, as_of_date)),
                               df_base(df, as_of_date, days))
    IN  IF \E k \in 1..Len(joined) : joined[k].baseline = NaN
        THEN FillFallback(joined, df_all_before(df, as_of_date))
        ELSE joined

\* A faulty variant (against C16): no row on as_of is reported as an error.
NoRowsRaises == [error |-> RuntimeError, frame |-> << >>]

\* if df_today.empty: return pd.DataFrame()
NoRowsForAsOf == [error |-> NoError, frame |-> << >>]

\* A faulty variant (against C18): the date column of the caller's table is
\* cut to the day in place.
NoCopy(df) ==
    [k \in 1..Len(df) |-> [df[k] EXCEPT !.date = Timestamp(df[k].date.date, 0)]]

\* The caller's table after the call: detect_spikes rebinds df_daily to a
\* copy before it converts the date column, so the caller's is untouched.
CallerTable(df) == df

\* The rows that survive the filters, before they are sorted.
SpikeRows(mrg, min_mean, min_rel) ==
    FilterDelta(WithDelta(FilterBaseline(dropna(mrg), min_mean)), min_rel)

-----------------------------------------------------------------------------
(* Inputs of detect_spikes *)

MaxRows == 4
MaxBaselineDays == 2

AsOfDate == toordinal(2025, 11, 24)

\* A row of the daily count table, dated `offset` days from AsOfDate.
Row(offset, hour, cc, risk, n) ==
    [date |-> Timestamp(AsOfDate + offset, hour), country_code |-> cc,
     risk_type |-> risk, count |-> n]

\* The rows tables are drawn from: the pair (US, MILITARY) on the days
\* around as_of with counts 0, 1 and 3 and with a time of day, and the pairs
\* (JP, MILITARY) and (US, OTHER) on a few days.
RowUniverse ==
    << Row(-3, 0, Chars_US, RISK_MILITARY, 1), Row(-3, 0, Chars_US, RISK_MILITARY, 3),
       Row(-2, 0, Chars_US, RISK_MILITARY, 1), Row(-2, 0, Chars_US, RISK_MILITARY, 3),
       Row(-1, 0, Chars_US, RISK_MILITARY, 0), Row(-1, 0, Chars_US, RISK_MILITARY, 1),
       Row(-1, 0, Chars_US, RISK_MILITARY, 3),
       Row(0, 0, Chars_US, RISK_MILITARY, 0), Row(0, 0, Chars_US, RISK_MILITARY, 1),
       Row(0, 0, Chars_US, RISK_MILITARY, 3), Row(0, 12, Chars_US, RISK_MILITARY, 1),
       Row(1, 0, Chars_US, RISK_MILITARY, 1), Row(1, 0, Chars_US, RISK_MILITARY, 3),
       Row(-3, 0, Chars_JP, RISK_MILITARY, 1), Row(0, 0, Chars_JP, RISK_MILITARY, 1),
       Row(-1, 0, Chars_US, RISK_OTHER, 1), Row(0, 0, Chars_US, RISK_OTHER, 1) >>

\* The non-decreasing sequences of n indexes from lo on: one sequence per
\* multiset of rows (detect_spikes groups the rows, their order is not seen).
RECURSIVE IndexSeqs(_, _)
IndexSeqs(n, lo) ==
    IF n = 0 THEN {<< >>}
    ELSE UNION {{<< v >> \o t : t \in IndexSeqs(n - 1, v)} :
                    v \in lo..Len(RowUniverse)}

TablesUpTo(max) ==
    {[k \in 1..Len(ix) |-> RowUniverse[ix[k]]] :
        ix \in UNION {IndexSeqs(n, 1) : n \in 0..max}}

Tables == TablesUpTo(MaxRows)

Params(t, days, min_mean, min_rel) ==
    [as_of |-> t, baseline_days |-> days, min_baseline_mean |-> min_mean,
     min_delta_rel |-> min_rel]

\* baseline_days 0..MaxBaselineDays with the thresholds 0 and 1 (the
\* defaults are 1.0 and 1.0), as_of at midnight; and one as_of with a time.
ParamInputs ==
    {Params(Timestamp(AsOfDate, 0), days, Frac(mb, 1), Frac(md, 1)) :
        days \in 0..MaxBaselineDays, mb \in {0, 1}, md \in {0, 1}}
    \cup {Params(Timestamp(AsOfDate, 9), 1, Frac(1, 2), Frac(1, 2))}

\* The scenario of the specification: 5 events on each of the 7 days before
\* as_of and 40 on as_of, with the default parameters.
ScenarioTable ==
    [k \in 1..7 |-> Row(k - 8, 0, Chars_US, RISK_MILITARY, 5)]
    \o << Row(0, 0, Chars_US, RISK_MILITARY, 40) >>

ScenarioParams == Params(Timestamp(AsOfDate, 0), 7, Frac(1, 1), Frac(1, 1))

\* Three pairs with 5 events on the day before as_of and 9, 10 and 0 on
\* as_of: delta_percent +80, +100 and -100.
ThresholdTable ==
    << Row(-1, 0, Chars_US, RISK_MILITARY, 5), Row(0, 0, Chars_US, RISK_MILITARY, 9),
       Row(-1, 0, Chars_JP, RISK_MILITARY, 5), Row(0, 0, Chars_JP, RISK_MILITARY, 10),
       Row(-1, 0, Chars_US, RISK_OTHER, 5), Row(0, 0, Chars_US, RISK_OTHER, 0) >>

ThresholdParams == Params(Timestamp(AsOfDate, 0), 1, Frac(1, 1), Frac(1, 1))

DetectInputs ==
    (Tables \X ParamInputs)
    \cup {<<ScenarioTable, ScenarioParams>>, <<ThresholdTable, ThresholdParams>>}

\* The builds: every ranking of the positions of the rows handed to the
\* sort (the identity ranking is a stable sort). The sort of detect_spikes
\* gets at most one row per pair of the table, so rankings of n positions
\* tell all builds apart on a table of n pairs.
SortKinds(n) ==
    {f \in [1..n -> 1..n] : \A a, b \in 1..n : a # b => f[a] # f[b]}

\* The number of pairs of table df with a row dated as t is.
TodayPairs(df, t) == Cardinality(PairsIn(df_today(DatesOnly(df), t.date)))

StableKind(knd) == \A k \in DOMAIN knd : knd[k] = k

\* Tables for calls made one after another on one table: the small tables,
\* the three pairs at +80, +100 and -100, and two pairs with the same
\* delta_percent on as_of.
MaxRerunRows == 2
MaxCalls == 3

TieTable ==
    << Row(-3, 0, Chars_JP, RISK_MILITARY, 1), Row(0, 0, Chars_JP, RISK_MILITARY, 1),
       Row(-1, 0, Chars_US, RISK_OTHER, 1), Row(0, 0, Chars_US, RISK_OTHER, 1) >>

TieParams == Params(Timestamp(AsOfDate, 0), 1, Frac(1, 1), Frac(0, 1))

RerunInputs ==
    (TablesUpTo(MaxRerunRows) \X ParamInputs)
    \cup {<<ThresholdTable, ThresholdParams>>, <<TieTable, TieParams>>}

\* The as_of dates of the later calls.
RerunAsOf == {Timestamp(AsOfDate - 1, 0), Timestamp(AsOfDate, 0)}

-----------------------------------------------------------------------------
(* detect_spikes run on a table *)

InitDetect ==
    /\ pc = "detect_spikes"
    /\ \E in \in DetectInputs :
          /\ df_daily = in[1]
          /\ as_of = in[2].as_of
          /\ baseline_days = in[2].baseline_days
          /\ min_baseline_mean = in[2].min_baseline_mean
          /\ min_delta_rel = in[2].min_delta_rel
    /\ kind \in SortKinds(TodayPairs(df_daily, as_of))
    /\ merged = << >>
    /\ spikes = << >>
    /\ history = << >>
    /\ error = NoError
    /\ IdleClassify
    /\ IdleGraph
    /\ IdleNotify

\* The record of one call: what was passed and what came back.
Call(df, t, days, min_mean, min_rel, result) ==
    [df_daily |-> df, as_of |-> t, baseline_days |-> days,
     min_baseline_mean |-> min_mean, min_delta_rel |-> min_rel,
     result |-> result]

\* detect_spikes: works on a copy of df_daily; returns the empty frame when
\* no row is dated as_of, else the filtered rows sorted by delta_percent.
DetectSpikes ==
    /\ pc = "detect_spikes"
    /\ LET df == DatesOnly(df_daily)
           as_of_date == as_of.date
       IN  IF df_today(df, as_of_date) = << >>
           THEN /\ merged' = << >>
                /\ spikes' = NoRowsForAsOf.frame
                /\ error' = NoRowsForAsOf.error
           ELSE LET mrg == MergedWithBaseline(df, as_of_date, baseline_days)
                    kept == SpikeRows(mrg, min_baseline_mean, min_delta_rel)
                IN  /\ merged' = mrg
                    /\ spikes' = WithAsOf(sort_values(kept, kind), as_of_date)
                    /\ error' = NoError
    /\ pc' = IF error' = NoError THEN "detect_spikes_returned"
             ELSE "detect_spikes_raised"
    /\ history' = Append(history,
                         Call(df_daily, as_of, baseline_days, min_baseline_mean,
                              min_delta_rel, spikes'))
    /\ df_daily' = CallerTable(df_daily)
    /\ UNCHANGED << as_of, baseline_days, min_baseline_mean, min_delta_rel,
                    kind, classifyVars, graphVars, notifyVars >>

NextDetect == DetectSpikes

SpecDetect == InitDetect /\ [][NextDetect]_vars

-----------------------------------------------------------------------------
(* detect_spikes called again and again on one table *)

InitRerun ==
    /\ pc = "detect_spikes"
    /\ \E in \in RerunInputs :
          /\ df_daily = in[1]
          /\ as_of = in[2].as_of
          /\ baseline_days = in[2].baseline_days
          /\ min_baseline_mean = in[2].min_baseline_mean
          /\ min_delta_rel = in[2].min_delta_rel
    /\ kind \in SortKinds(Cardinality(PairsIn(df_daily)))
    /\ merged = << >>
    /\ spikes = << >>
    /\ history = << >>
    /\ error = NoError
    /\ IdleClassify
    /\ IdleGraph
    /\ IdleNotify

\* The caller runs detection once more on the table it holds, for the same
\* or another as_of.
CallAgain ==
    /\ pc = "detect_spikes_returned"
    /\ Len(history) < MaxCalls
    /\ as_of' \in RerunAsOf
    /\ pc' = "detect_spikes"
    /\ UNCHANGED << df_daily, error, baseline_days, min_baseline_mean,
                    min_delta_rel, merged, spikes, kind, history, classifyVars,
                    graphVars, notifyVars >>

NextRerun == DetectSpikes \/ CallAgain

SpecRerun == InitRerun /\ [][NextRerun]_vars

-----------------------------------------------------------------------------
(* classify_severity (gdelt_spike_to_events.py) and infer_level
   (gdelt_to_spike.py) *)

\* A faulty variant (against C17): the cutoffs are exclusive.
classify_severity_exclusive(d) ==
    IF FloatGt(d, Frac(1000, 1)) THEN "EXTREME"
    ELSE IF FloatGt(d, Frac(500, 1)) THEN "HIGH"
    ELSE IF FloatGt(d, Frac(200, 1)) THEN "MEDIUM"
    ELSE "LOW"

classify_severity(d) ==
    IF FloatGe(d, Frac(1000, 1)) THEN "EXTREME"
    ELSE IF FloatGe(d, Frac(500, 1)) THEN "HIGH"
    ELSE IF FloatGe(d, Frac(200, 1)) THEN "MEDIUM"
    ELSE "LOW"

infer_level(d) ==
    IF FloatGe(d, Frac(400, 1)) THEN "critical"
    ELSE IF FloatGe(d, Frac(250, 1)) THEN "alert"
    ELSE IF FloatGe(d, Frac(150, 1)) THEN "warning"
    ELSE "info"

\* Arguments: the multiples of 25 from -MaxDeltaSteps \div 6 to
\* MaxDeltaSteps steps, the halves on either side of each cutoff, NaN and
\* +inf.
MaxDeltaSteps == 48

DeltaInputs ==
    {Frac(25 * k, 1) : k \in (-(MaxDeltaSteps \div 6))..MaxDeltaSteps}
    \cup {Frac(2 * c + e, 2) : c \in {150, 200, 250, 400, 500, 1000}, e \in {-1, 1}}
    \cup {NaN, PosInf}

InitLabels ==
    /\ pc = "labels"
    /\ delta_percent \in DeltaInputs
    /\ severity = NoneResult
    /\ level = NoneResult
    /\ IdleSend
    /\ IdleLoad
    /\ IdleClassify
    /\ IdleGraph
    /\ IdleDetect
    /\ df_daily = << >>
    /\ error = NoError

ClassifySeverity ==
    /\ pc = "labels"
    /\ severity = NoneResult
    /\ severity' = classify_severity(delta_percent)
    /\ UNCHANGED << pc, delta_percent, level, sendVars, loadVars, classifyVars,
                    graphVars, detectVars, df_daily, error >>

InferLevel ==
    /\ pc = "labels"
    /\ level = NoneResult
    /\ level' = infer_level(delta_percent)
    /\ UNCHANGED << pc, delta_percent, severity, sendVars, loadVars,
                    classifyVars, graphVars, detectVars, df_daily, error >>

NextLabels == ClassifySeverity \/ InferLevel

SpecLabels == InitLabels /\ [][NextLabels]_vars

-----------------------------------------------------------------------------
(* send_discord_payload (send_discord.py) *)

DiscordSenderError == "DiscordSenderError"

\* What one requests.post and the handling of its response can come to:
\* status 204; status 429 followed by a sleep; status 429 with a
\* Retry-After that time.sleep rejects (a negative number: ValueError);
\* another status; an exception out of requests.post.
STATUS_204 == "204"
STATUS_429 == "429"
STATUS_429_SLEEP_RAISES == "429, time.sleep raises"
STATUS_OTHER == "500"
POST_RAISES == "requests.post raises"

PostOutcomes ==
    {STATUS_204, STATUS_429, STATUS_429_SLEEP_RAISES, STATUS_OTHER, POST_RAISES}

\* The exception the `except Exception as e` clause catches in attempt n.
Caught(n, outcome) ==
    [attempt |-> n,
     e |-> IF outcome = STATUS_OTHER THEN DiscordSenderError
           ELSE IF outcome = STATUS_429_SLEEP_RAISES THEN ValueError
           ELSE "RequestException"]

\* last_err after attempt n: set in the except clause only; the 429 branch
\* sleeps and continues without touching it.
LastErrAfter(n, outcome, err) ==
    IF outcome \in {STATUS_204, STATUS_429} THEN err
    ELSE Caught(n, outcome)

MaxRetries == 3

InitSend ==
    /\ pc = "send_discord_payload"
    /\ max_retries \in 0..MaxRetries
    /\ attempt = 0
    /\ last_err = None
    /\ posts = << >>
    /\ error = NoError
    /\ IdleLabels
    /\ IdleLoad
    /\ IdleClassify
    /\ IdleGraph
    /\ IdleDetect
    /\ df_daily = << >>

\* One iteration of `for attempt in range(1, max_retries + 1)`: the POST and
\* what follows it, up to the return, the continue or the break.
PostAttempt ==
    /\ pc = "send_discord_payload"
    /\ attempt < max_retries
    /\ \E outcome \in PostOutcomes :
          /\ posts' = Append(posts, outcome)
          /\ last_err' = LastErrAfter(attempt + 1, outcome, last_err)
          /\ pc' = IF outcome = STATUS_204 THEN "send_discord_payload_returned"
                   ELSE pc
    /\ attempt' = attempt + 1
    /\ UNCHANGED << max_retries, error, labelVars, loadVars, classifyVars,
                    graphVars, detectVars, df_daily >>

\* After the loop (run out, or left by the break of the last attempt):
\* raise DiscordSenderError(f"Failed to send Discord webhook: {last_err}").
RaiseFailed ==
    /\ pc = "send_discord_payload"
    /\ attempt >= max_retries
    /\ pc' = "send_discord_payload_raised"
    /\ error' = DiscordSenderError
    /\ UNCHANGED << sendVars, labelVars, loadVars, classifyVars, graphVars,
                    detectVars, df_daily >>

NextSend == PostAttempt \/ RaiseFailed

SpecSend == InitSend /\ [][NextSend]_vars

-----------------------------------------------------------------------------
(* load_spike_events_from_csv (gdelt_spike_to_events.py), on the file that
   main of graphml_to_spikes.py writes *)

REQUIRED_COLUMNS ==
    {"as_of", "country_code", "risk_type", "today", "baseline", "delta_percent"}

\* spikes.to_csv(args.output_csv, index=False): the header and the rows. The
\* frame returned for no row on as_of, pd.DataFrame(), has no columns;
\* `joined` is the today/baseline join of the call (empty in that case).
to_csv(frame, joined) ==
    [columns |-> IF joined = << >> THEN {} ELSE REQUIRED_COLUMNS,
     rows |-> frame]

\* pd.read_csv on a text column: the text, but the markers of a missing
\* value (as the country code "NA") come back as NaN, which str() prints
\* as "nan".
ReadText(chars) ==
    IF chars \in {<< >>, <<"N", "A">>, <<"N", "a", "N">>, <<"n", "a", "n">>}
    THEN <<"n", "a", "n">>
    ELSE chars

\* A faulty variant (against C20): the loader tests the size of the change.
mask_abs(row, mt, mb, md) ==
    /\ row.today >= mt
    /\ FloatGe(row.baseline, mb)
    /\ FloatGe(FloatAbs(row.delta_percent), md)

\* mask: (today >= min_today) & (baseline >= min_baseline)
\*       & (delta_percent >= min_delta_percent)
mask(row, mt, mb, md) ==
    /\ row.today >= mt
    /\ FloatGe(row.baseline, mb)
    /\ FloatGe(row.delta_percent, md)

SpikeEvent(row) ==
    [date |-> row.as_of,
     country_code |-> ReadText(row.country_code),
     risk_type |-> row.risk_type,
     today_count |-> row.today,
     baseline_mean |-> row.baseline,
     delta_percent |-> row.delta_percent,
     severity |-> classify_severity(row.delta_percent)]

\* The list the loader returns for a file with the required columns.
load_spike_events(df, mt, mb, md, knd) ==
    LET kept == SelectSeq(df, LAMBDA r : mask(r, mt, mb, md))
        sorted == sort_values(kept, knd)
    IN  [k \in 1..Len(sorted) |-> SpikeEvent(sorted[k])]

\* Thresholds of the loader: the defaults 10, 1.0 and 100, lower ones, and
\* a negative min_delta_percent.
LoadParamInputs ==
    {[min_today |-> mt, min_baseline |-> Frac(mb, 1),
      min_delta_percent |-> Frac(md, 1)] :
        mt \in {0, 1, 10}, mb \in {0, 1}, md \in {-100, 0, 100}}

\* main after detect_spikes: spikes.to_csv(args.output_csv, index=False).
WriteCsv ==
    /\ pc = "detect_spikes_returned"
    /\ csv = None
    /\ csv' = to_csv(spikes, merged)
    /\ pc' = "main_returned"
    /\ UNCHANGED << df_daily, error, detectVars, classifyVars, graphVars,
                    labelVars, sendVars, min_today, min_baseline,
                    min_delta_percent, events >>

\* load_spike_events_from_csv on the file written: ValueError when a
\* required column is missing (read_csv itself raises EmptyDataError, a
\* ValueError, on a file without columns), else filter, sort, convert.
LoadSpikeEvents ==
    /\ pc = "main_returned"
    /\ \E p \in LoadParamInputs :
          /\ min_today' = p.min_today
          /\ min_baseline' = p.min_baseline
          /\ min_delta_percent' = p.min_delta_percent
          /\ IF REQUIRED_COLUMNS \ csv.columns # {}
             THEN /\ events' = events
                  /\ error' = ValueError
                  /\ pc' = "load_spike_events_from_csv_raised"
             ELSE /\ events' = load_spike_events(csv.rows, p.min_today,
                                                 p.min_baseline,
                                                 p.min_delta_percent, kind)
                  /\ error' = error
                  /\ pc' = "load_spike_events_from_csv_returned"
    /\ UNCHANGED << df_daily, csv, detectVars, classifyVars, graphVars,
                    labelVars, sendVars >>

NextEvents == DetectSpikes \/ WriteCsv \/ LoadSpikeEvents

\* Detection on a table, the file, and the loader on the file.
SpecEvents == InitRerun /\ [][NextEvents]_vars

-----------------------------------------------------------------------------
(* main: graphml_to_daily_counts, then detect_spikes on its table *)

RECURSIVE MaxDate(_)
MaxDate(df) ==
    IF Len(df) = 1 THEN df[1].date
    ELSE LET rest == MaxDate(Tail(df))
         IN  IF TsLess(rest, df[1].date) THEN df[1].date ELSE rest

\* main between the two calls: as_of is --as-of (parsed to midnight) or,
\* when it is not given, the largest date of the table; the other arguments
\* come from the command line.
MainCallsDetect ==
    /\ pc = "graphml_to_daily_counts_returned"
    /\ \E p \in ParamInputs :
          /\ as_of' \in {MaxDate(df_daily)} \cup {to_datetime(p.as_of.date)}
          /\ kind' \in SortKinds(TodayPairs(df_daily, as_of'))
          /\ baseline_days' = p.baseline_days
          /\ min_baseline_mean' = p.min_baseline_mean
          /\ min_delta_rel' = p.min_delta_rel
    /\ pc' = "detect_spikes"
    /\ UNCHANGED << df_daily, error, merged, spikes, history, classifyVars,
                    graphVars, notifyVars >>

NextMain ==
    VisitNode \/ FinishDailyCounts \/ MainCallsDetect \/ DetectSpikes \/ WriteCsv

\* The program run from the command line.
SpecMain == InitGraph /\ [][NextMain]_vars

\* Every operation, from each of its entries.
Init ==
    InitClassify \/ InitGraph \/ InitDetect \/ InitRerun \/ InitLabels \/ InitSend

Next ==
    \/ ClassifyEventRisk
    \/ NextMain
    \/ CallAgain
    \/ LoadSpikeEvents
    \/ NextLabels
    \/ NextSend

Spec == Init /\ [][Next]_vars

-----------------------------------------------------------------------------
(* Claims about the classifier (checked under SpecClassify) *)

\* The call has ended, by a return or by an exception.
Ended == pc \in {"classify_event_risk_returned", "classify_event_risk_raised"}
ThemeStepRan == \E i \in 1..Len(calls) : calls[i] = "_classify_by_theme_labels"
CameoStepRan == \E i \in 1..Len(calls) : calls[i] = "_classify_by_cameo"

\* C1: classify_event_risk is total: for every action code (absent, empty or
\* any string) and every sequence of theme labels it returns one of the six
\* risk categories and raises nothing.
C1_Total == Ended => (error = NoError /\ risk_type \in RiskCategories)

\* C2: a category found from the action code through the root table is the
\* result whatever the theme labels are, and the theme step runs only when
\* the action code is absent (or empty) or yields no mapping.
C2_CameoPrecedence ==
    Ended =>
        LET by_cameo == _classify_by_cameo(cameo)
        IN  /\ (by_cameo \in RiskCategories =>
                    risk_type = by_cameo /\ error = NoError /\ ~ThemeStepRan)
            /\ (ThemeStepRan => (~Truthy(cameo) \/ by_cameo = NoneResult))

\* C2 witness: the code maps to CIVIL_UNREST, the labels alone would give
\* another category, and the code's category was returned.
C2_Witness ==
    /\ Ended
    /\ _classify_by_cameo(cameo) = RISK_CIVIL_UNREST
    /\ _classify_by_theme_labels(theme_labels) = RISK_NATURAL_DISASTER
    /\ risk_type = RISK_CIVIL_UNREST

\* The root table as the claim C3 states it.
C3_Table(root) ==
    CASE root \in {15, 17, 18, 19, 20} -> RISK_MILITARY
      [] root = 14 -> RISK_CIVIL_UNREST
      [] root \in {10, 11, 12, 13, 16} -> RISK_POLITICAL
      [] root \in {6, 7} -> RISK_ECONOMIC
      [] OTHER -> NoneResult

\* What follows a code step that yielded `expected`: a category is returned
\* as it is, no category falls through to the theme step (entered when there
\* are labels), a ValueError escapes.
C3_Follows(expected) ==
    /\ _classify_by_cameo(cameo) = expected
    /\ expected \in RiskCategories => (risk_type = expected /\ ~ThemeStepRan)
    /\ expected = NoneResult =>
          (error = NoError /\ (ThemeStepRan <=> theme_labels # << >>))
    /\ expected = ValueError => (error = ValueError /\ ~ThemeStepRan)

\* C3 as stated: the step uses the first two characters of the action code
\* and yields a category only if both are (decimal) digits, by the root
\* table; every other code, a one-character code included, yields no
\* category and falls through to the theme step.
C3_Original ==
    (Ended /\ Truthy(cameo)) =>
        LET s == cameo.chars
            both == Len(s) >= 2 /\ s[1] \in AsciiDigits /\ s[2] \in AsciiDigits
        IN  C3_Follows(IF both THEN C3_Table(IntOf(SubSeq(s, 1, 2)))
                       ELSE NoneResult)

\* C3 amended: the step strips surrounding whitespace and uses the first two
\* characters of what is left (all of it when shorter); when these are
\* decimal digits their integer is the root and the root table applies (so
\* "7" and "07" give ECONOMIC, " 14" gives CIVIL_UNREST); a prefix holding a
\* non-digit, or an unmapped root, yields no category and falls through to
\* the theme step; a prefix of digit characters that int() rejects raises
\* ValueError.
C3_StrippedRoot ==
    (Ended /\ Truthy(cameo)) =>
        LET s == strip(cameo.chars)
            p == IF Len(s) >= 2 THEN SubSeq(s, 1, 2) ELSE s
            decimal == p # << >> /\ \A i \in 1..Len(p) : p[i] \in AsciiDigits
            digits == p # << >> /\ \A i \in 1..Len(p) :
                                      p[i] \in AsciiDigits \cup {SUP2}
        IN  C3_Follows(IF decimal THEN C3_Table(IntOf(p))
                       ELSE IF digits THEN ValueError
                       ELSE NoneResult)

\* C3 witness: a one-character code and a code with leading whitespace were
\* classified by the root table.
C3_Witness ==
    /\ Ended
    /\ CameoStepRan
    /\ theme_labels # << >>
    /\ ~ThemeStepRan
    /\ \/ (cameo = Str(<<"7">>) /\ risk_type = RISK_ECONOMIC)
       \/ (cameo = Str(<<" ", "1", "4">>) /\ risk_type = RISK_CIVIL_UNREST)

\* The first bucket of `order` (pairs of keywords and category) that some
\* label matches, case-insensitively and as a substring.
RECURSIVE C4_FirstMatch(_, _)
C4_FirstMatch(order, labels) ==
    IF order = << >> THEN NoneResult
    ELSE IF \E i \in 1..Len(labels) : \E j \in 1..Len(order[1][1]) :
                IsSubstring(order[1][1][j], upper(labels[i]))
         THEN order[1][2]
         ELSE C4_FirstMatch(Tail(order), labels)

C4_ClaimedOrder ==
    << <<KW_NATURAL_DISASTER, RISK_NATURAL_DISASTER>>,
       <<KW_MILITARY \o KW_TERROR, RISK_MILITARY>>,
       <<KW_CIVIL_UNREST, RISK_CIVIL_UNREST>>,
       <<KW_POLITICAL, RISK_POLITICAL>>,
       <<KW_ECONOMIC, RISK_ECONOMIC>> >>

C4_CodeOrder ==
    << <<KW_NATURAL_DISASTER, RISK_NATURAL_DISASTER>>,
       <<KW_MILITARY, RISK_MILITARY>>,
       <<KW_CIVIL_UNREST, RISK_CIVIL_UNREST>>,
       <<KW_TERROR, RISK_MILITARY>>,
       <<KW_POLITICAL, RISK_POLITICAL>>,
       <<KW_ECONOMIC, RISK_ECONOMIC>> >>

C4_ThemeResult(order) ==
    (Ended /\ ThemeStepRan) =>
        LET m == C4_FirstMatch(order, theme_labels)
        IN  risk_type = IF m = NoneResult THEN RISK_OTHER ELSE m

\* C4 as stated: the theme step applies the buckets natural disaster,
\* military/conflict/terror (MILITARY), protest/unrest (CIVIL_UNREST),
\* political, economic, first match over the whole label list winning; so
\* TERROR with PROTEST gives MILITARY.
C4_Original == C4_ThemeResult(C4_ClaimedOrder)

\* C4 amended: the buckets are natural disaster, military/conflict
\* (MILITARY), protest/unrest (CIVIL_UNREST), terror (MILITARY), political,
\* economic, first match over the whole label list winning; so TERROR with
\* PROTEST gives CIVIL_UNREST, and SANCTION alone gives POLITICAL.
C4_ThemeOrder ==
    /\ C4_ThemeResult(C4_CodeOrder)
    /\ (Ended /\ ThemeStepRan /\ theme_labels = <<LBL_protest, LBL_TERROR>>)
          => risk_type = RISK_CIVIL_UNREST
    /\ (Ended /\ ThemeStepRan /\ theme_labels = <<LBL_SANCTION>>)
          => risk_type = RISK_POLITICAL

\* C4 witness: labels with a terror keyword and a protest keyword were
\* classified by the theme step.
C4_Witness ==
    /\ Ended
    /\ ThemeStepRan
    /\ theme_labels = <<LBL_TERROR, LBL_protest>>
    /\ risk_type = RISK_CIVIL_UNREST

-----------------------------------------------------------------------------
(* Claims about graphml_to_daily_counts (checked under SpecGraph) *)

\* The country codes an Event node resolves to: the non-empty country
\* attributes of its neighbouring Location nodes.
EventCountrySet(node) ==
    {NodeAttrs(G, node.nbrs[k]).country.chars :
        k \in {k \in 1..Len(node.nbrs) :
                 /\ NodeAttrs(G, node.nbrs[k]).type = "Location"
                 /\ NodeAttrs(G, node.nbrs[k]).country # None
                 /\ NodeAttrs(G, node.nbrs[k]).country.chars # << >>}}

HasParseableDate(node) ==
    /\ node.data.date # None
    /\ node.data.date.chars # << >>
    /\ strptime_Ymd(node.data.date.chars).ok

\* A valid event: an Event node with a parseable date and a resolved country.
ValidEvent(node) ==
    /\ node.data.type = "Event"
    /\ HasParseableDate(node)
    /\ EventCountrySet(node) # {}

EventDate(node) == strptime_Ymd(node.data.date.chars).date

\* The (event, distinct country) pairs of the valid events among the first n
\* nodes that fall on date d.
EventCountryPairs(n, d) ==
    {<<k, c>> \in (1..n) \X {Chars_US, Chars_JP} :
        /\ ValidEvent(G[k])
        /\ EventDate(G[k]) = d
        /\ c \in EventCountrySet(G[k])}

RECURSIVE SumCounts(_)
SumCounts(table) ==
    IF table = << >> THEN 0 ELSE table[1].count + SumCounts(Tail(table))

RowsOn(table, d) == SelectSeq(table, LAMBDA r : r.date.date = d)

GraphDates == {EventDate(G[k]) : k \in {k \in 1..Len(G) : ValidEvent(G[k])}}

\* C5: in the table graphml_to_daily_counts returns, for every date the sum
\* of the counts equals the number of (event, distinct country) pairs of the
\* valid events on that date, a country reached through several Location
\* nodes counting once; each key holds the events of one risk category.
C5_SumIsEventCountryPairs ==
    pc = "graphml_to_daily_counts_returned" =>
        /\ \A d \in GraphDates \cup {df_daily[i].date.date : i \in 1..Len(df_daily)} :
              SumCounts(RowsOn(df_daily, d)) = Cardinality(EventCountryPairs(Len(G), d))
        /\ \A i \in 1..Len(df_daily) :
              df_daily[i].count =
                Cardinality({p \in EventCountryPairs(Len(G), df_daily[i].date.date) :
                    /\ p[2] = df_daily[i].country_code
                    /\ classify_event_risk(G[p[1]].data.cameo,
                                           theme_labels_of(G, G[p[1]]))
                         = df_daily[i].risk_type})

\* C5 witness: a table was returned for a graph with an event reaching one
\* country through two Location nodes and an event reaching two countries.
C5_Witness ==
    /\ pc = "graphml_to_daily_counts_returned"
    /\ \E k \in 1..Len(G) :
          /\ ValidEvent(G[k])
          /\ Cardinality(EventCountrySet(G[k])) = 1
          /\ Cardinality({j \in 1..Len(G[k].nbrs) :
                NodeAttrs(G, G[k].nbrs[j]).country = Str(Chars_US)}) = 2
    /\ \E k \in 1..Len(G) :
          ValidEvent(G[k]) /\ Cardinality(EventCountrySet(G[k])) = 2

\* C6: an Event node contributes to the count table if and only if its date
\* is present and parses and a neighbouring Location has a non-empty
\* country; any other node is skipped without raising and changes no
\* count.  Stated on the rows collected after each visited node.
C6_ContributesIffValid ==
    /\ error # ValueError
    /\ \A d \in GraphDates \cup {rows[i].date.date : i \in 1..Len(rows)} :
          \A c \in {Chars_US, Chars_JP} :
              Cardinality({i \in 1..Len(rows) :
                  rows[i].date.date = d /\ rows[i].country_code = c})
              = Cardinality({p \in EventCountryPairs(node_i, d) : p[2] = c})

\* C7: with no valid event in the graph graphml_to_daily_counts fails with
\* its fatal error; with at least one it returns a non-empty table.
C7_FatalIffNoValidEvent ==
    pc \in {"graphml_to_daily_counts_returned", "graphml_to_daily_counts_raised"} =>
        IF \E k \in 1..Len(G) : ValidEvent(G[k])
        THEN pc = "graphml_to_daily_counts_returned" /\ error = NoError /\ df_daily # << >>
        ELSE pc = "graphml_to_daily_counts_raised" /\ error = RuntimeError

-----------------------------------------------------------------------------
(* Claims about detect_spikes (checked under SpecDetect) *)

Detected == pc = "detect_spikes_returned"

\* Indexes of the rows of the table passed in that belong to the pair of
\* record r and are dated (by calendar day) within lo..hi.
PairRowsDated(r, lo, hi) ==
    {i \in 1..Len(df_daily) :
        /\ df_daily[i].country_code = r.country_code
        /\ df_daily[i].risk_type = r.risk_type
        /\ df_daily[i].date.date >= lo
        /\ df_daily[i].date.date <= hi}

WindowRows(r) ==
    PairRowsDated(r, as_of.date - baseline_days, as_of.date - 1)

HistoryRows(r) == PairRowsDated(r, 0, as_of.date - 1)

RECURSIVE SumCountsAt(_)
SumCountsAt(I) ==
    IF I = {} THEN 0
    ELSE LET i == CHOOSE i \in I : TRUE
         IN  df_daily[i].count + SumCountsAt(I \ {i})

\* b is the mean of the counts of the rows I: b * |I| = sum.
IsMeanOf(b, I) ==
    /\ I # {}
    /\ b.kind = "num"
    /\ b.num * Cardinality(I) = SumCountsAt(I) * b.den

SpikeColumns ==
    {"as_of", "country_code", "risk_type", "today", "baseline", "delta_percent"}

\* C8: a pair with at least one row dated in [as_of - baseline_days,
\* as_of - 1] gets the primary baseline: the sum of its counts in the window
\* divided by the number of its rows there, whatever rows lie outside the
\* window; the spec's scenario (5 on each of 7 days, 40 on as_of) gives
\* baseline 5, today 40, delta_percent 700.
C8_PrimaryBaseline ==
    Detected =>
        /\ \A k \in 1..Len(merged) :
              WindowRows(merged[k]) # {} =>
                  IsMeanOf(merged[k].baseline, WindowRows(merged[k]))
        /\ \A k \in 1..Len(spikes) :
              WindowRows(spikes[k]) # {} =>
                  IsMeanOf(spikes[k].baseline, WindowRows(spikes[k]))
        /\ df_daily = ScenarioTable =>
              spikes = << [as_of |-> AsOfDate, country_code |-> Chars_US,
                           risk_type |-> RISK_MILITARY, today |-> 40,
                           baseline |-> [kind |-> "num", num |-> 5, den |-> 1],
                           delta_percent |-> [kind |-> "num", num |-> 700, den |-> 1]] >>

\* C8 witness: a returned record whose pair has two rows in the window and
\* an older row, the window mean differing from the full-history mean.
C8_Witness ==
    /\ Detected
    /\ \E k \in 1..Len(spikes) :
          /\ Cardinality(WindowRows(spikes[k])) >= 2
          /\ HistoryRows(spikes[k]) # WindowRows(spikes[k])
          /\ ~IsMeanOf(spikes[k].baseline, HistoryRows(spikes[k]))

C10_NoHistoryNoSpike ==
    Detected =>
        \A k \in 1..Len(spikes) : HistoryRows(spikes[k]) # {}

\* C10 witness: with both thresholds at zero, a pair with a positive count
\* on as_of and no earlier row was left out while another pair was returned.
C10_Witness ==
    /\ Detected
    /\ min_baseline_mean.num = 0
    /\ min_delta_rel.num = 0
    /\ spikes # << >>
    /\ \E k \in 1..Len(merged) :
          /\ HistoryRows(merged[k]) = {}
          /\ merged[k].today > 0
          /\ \A j \in 1..Len(spikes) :
                ~(/\ spikes[j].country_code = merged[k].country_code
                  /\ spikes[j].risk_type = merged[k].risk_type)

\* Record r's pair has a record in the returned frame.
Returned(r) ==
    \E j \in 1..Len(spikes) :
        /\ spikes[j].country_code = r.country_code
        /\ spikes[j].risk_type = r.risk_type

\* x < y and x = y for finite floats.
NumLess(x, y) == x.num * y.den < y.num * x.den
NumEq(x, y) == x.num * y.den = y.num * x.den

\* abs((today - b) / b * 100) >= rel * 100 for a finite baseline b >= 0 and
\* rel >= 0, with the division by 0.0 as the floats perform it: x / 0.0 is
\* infinite for x # 0 and 0.0 / 0.0 is NaN, which passes no comparison.
AbsDeltaAtLeast(today, b, rel) ==
    IF b.num = 0 THEN today # 0
    ELSE Abs(today * b.den - b.num) * rel.den >= rel.num * b.num

\* C11: a pair whose final baseline (window mean or fallback) is strictly
\* below min_baseline_mean is in no returned record, however large its count
\* today and its delta; a pair whose baseline equals min_baseline_mean
\* passes this filter, so it is returned whenever its delta passes the
\* delta threshold.
C11_MinBaseline ==
    Detected =>
        \A k \in 1..Len(merged) :
            merged[k].baseline.kind = "num" =>
                /\ NumLess(merged[k].baseline, min_baseline_mean)
                       => ~Returned(merged[k])
                /\ (/\ NumEq(merged[k].baseline, min_baseline_mean)
                    /\ AbsDeltaAtLeast(merged[k].today, merged[k].baseline,
                                       min_delta_rel))
                       => Returned(merged[k])

\* C11 witness: the spec's scenario, min_baseline_mean 1.0 and a baseline
\* of 0.5 under a count today six times as large: the pair is not returned.
C11_Witness ==
    /\ Detected
    /\ min_baseline_mean = [kind |-> "num", num |-> 1, den |-> 1]
    /\ \E k \in 1..Len(merged) :
          /\ merged[k].baseline = [kind |-> "num", num |-> 1, den |-> 2]
          /\ merged[k].today = 3
          /\ ~Returned(merged[k])

C13_SortedWithTies ==
    Detected =>
        \A a, b \in 1..Len(spikes) :
            a < b =>
                \/ FloatGt(spikes[a].delta_percent, spikes[b].delta_percent)
                \/ (/\ spikes[a].delta_percent = spikes[b].delta_percent
                    /\ PairLess(spikes[a], spikes[b]))

\* The part of C13 that every build gives: delta_percent never increases
\* along the returned sequence; and a build whose sort is stable gives the
\* tie order of C13 too.
C13_DescendingAndStableTies ==
    Detected =>
        /\ \A a, b \in 1..Len(spikes) :
              a < b => ~FloatGt(spikes[b].delta_percent, spikes[a].delta_percent)
        /\ StableKind(kind) => C13_SortedWithTies

\* C14: for every table of non-negative counts and all arguments, also
\* min_baseline_mean <= 0 and tables holding zero counts, every returned
\* record has baseline > 0 and today >= 0.
C14_PositiveBaseline ==
    Detected =>
        \A k \in 1..Len(spikes) :
            /\ spikes[k].baseline.kind = "num"
            /\ spikes[k].baseline.num > 0
            /\ spikes[k].today >= 0

\* d = (today - b) / b * 100 for a finite baseline b >= 0, as an equation
\* between exact values; over a baseline of 0.0 the floats give +inf for a
\* positive today.
IsDeltaOf(d, today, b) ==
    IF b.num # 0
    THEN /\ d.kind = "num"
         /\ d.num * b.num = (today * b.den - b.num) * 100 * d.den
    ELSE d.kind = "inf" /\ today > 0

\* C15: in every returned record delta_percent = (today - baseline) /
\* baseline * 100, where today is the sum of the pair's counts on as_of and
\* baseline is the record's own baseline, the pair's final baseline; the
\* three values are emitted as computed, not rounded or clamped.
C15_DeltaFormula ==
    Detected =>
        \A k \in 1..Len(spikes) :
            /\ spikes[k].today
                  = SumCountsAt(PairRowsDated(spikes[k], as_of.date, as_of.date))
            /\ IsMeanOf(spikes[k].baseline,
                        IF WindowRows(spikes[k]) = {}
                        THEN HistoryRows(spikes[k]) ELSE WindowRows(spikes[k]))
            /\ IsDeltaOf(spikes[k].delta_percent, spikes[k].today,
                         spikes[k].baseline)

\* C15 witness: a returned record whose delta_percent is no whole number
\* (baseline 3, today 1: -200/3), its pair having two rows on as_of or not.
C15_Witness ==
    /\ Detected
    /\ \E k \in 1..Len(spikes) :
          /\ spikes[k].delta_percent = [kind |-> "num", num |-> -200, den |-> 3]
          /\ spikes[k].baseline = [kind |-> "num", num |-> 3, den |-> 1]
          /\ spikes[k].today = 1

\* No row of the table passed in is dated (by calendar day) as_of.
NoRowOnAsOf == \A i \in 1..Len(df_daily) : df_daily[i].date.date # as_of.date

\* C16: detect_spikes raises nothing when there is no spike: with no row
\* dated as_of, and with rows on as_of of which no pair survives the
\* baseline and delta filters, the call returns normally, with an empty
\* result in the first case.
C16_NoSpikesIsNoError ==
    pc # "detect_spikes" =>
        /\ pc = "detect_spikes_returned"
        /\ error = NoError
        /\ NoRowOnAsOf => spikes = << >>

\* C16 witness: a call on a table with rows, none of them dated as_of, has
\* returned the empty result.
C16_Witness ==
    /\ Detected
    /\ df_daily # << >>
    /\ NoRowOnAsOf
    /\ spikes = << >>
    /\ error = NoError

-----------------------------------------------------------------------------
(* Claims about the enrichment labels (checked under SpecLabels) *)

\* delta_percent >= c as the floats compare: +inf is, NaN is not.
DeltaAtLeast(c) ==
    \/ delta_percent.kind = "inf"
    \/ (delta_percent.kind = "num" /\ delta_percent.num >= c * delta_percent.den)

\* C17: both labels are functions of delta_percent alone with inclusive
\* cutoffs: severity is EXTREME from 1000, HIGH from 500, MEDIUM from 200,
\* else LOW; level is critical from 400, alert from 250, warning from 150,
\* else info; so 700 gives HIGH and critical and every negative delta gives
\* LOW and info.
C17_LabelCutoffs ==
    /\ severity # NoneResult =>
          severity = IF DeltaAtLeast(1000) THEN "EXTREME"
                     ELSE IF DeltaAtLeast(500) THEN "HIGH"
                     ELSE IF DeltaAtLeast(200) THEN "MEDIUM"
                     ELSE "LOW"
    /\ level # NoneResult =>
          level = IF DeltaAtLeast(400) THEN "critical"
                  ELSE IF DeltaAtLeast(250) THEN "alert"
                  ELSE IF DeltaAtLeast(150) THEN "warning"
                  ELSE "info"
    /\ (delta_percent = [kind |-> "num", num |-> 700, den |-> 1]
        /\ severity # NoneResult /\ level # NoneResult)
          => (severity = "HIGH" /\ level = "critical")
    /\ (delta_percent.kind = "num" /\ delta_percent.num < 0
        /\ severity # NoneResult /\ level # NoneResult)
          => (severity = "LOW" /\ level = "info")

\* C17 witness: a delta_percent exactly on a cutoff of each function got
\* the label of the upper side: 500 is HIGH and critical.
C17_Witness ==
    /\ delta_percent = [kind |-> "num", num |-> 500, den |-> 1]
    /\ severity = "HIGH"
    /\ level = "critical"

-----------------------------------------------------------------------------
(* Claims about repeated detection (checked under SpecRerun) *)

SameArguments(c1, c2) ==
    /\ c1.df_daily = c2.df_daily
    /\ c1.as_of = c2.as_of
    /\ c1.baseline_days = c2.baseline_days
    /\ c1.min_baseline_mean = c2.min_baseline_mean
    /\ c1.min_delta_rel = c2.min_delta_rel

-----------------------------------------------------------------------------
(* Claims about send_discord_payload (checked under SpecSend) *)

\* C19: whatever the webhook answers, at most max_retries POSTs are made;
\* the call returns normally exactly when an attempt got status 204, which
\* is then the last POST; in every other case DiscordSenderError is raised
\* after exactly max_retries attempts and the error raised reports the
\* failure of the last attempt.
C19_RetryOutcome ==
    /\ Len(posts) <= max_retries
    /\ \A i \in 1..Len(posts) : posts[i] = STATUS_204 => i = Len(posts)
    /\ pc = "send_discord_payload_returned"
          <=> (posts # << >> /\ posts[Len(posts)] = STATUS_204)
    /\ pc = "send_discord_payload_raised" =>
          /\ error = DiscordSenderError
          /\ Len(posts) = max_retries
          /\ max_retries > 0 =>
                (last_err # None /\ last_err.attempt = max_retries)

-----------------------------------------------------------------------------
(* Claims about load_spike_events_from_csv (checked under SpecEvents) *)

Loaded == pc = "load_spike_events_from_csv_returned"

\* x >= y for a float x that is finite or +inf and a finite y.
AtLeast(x, y) == x.kind = "inf" \/ x.num * y.den >= y.num * x.den

PassesLoader(row) ==
    /\ row.today >= min_today
    /\ AtLeast(row.baseline, min_baseline)
    /\ AtLeast(row.delta_percent, min_delta_percent)

IsEventOf(ev, row) ==
    /\ ev.date = row.as_of
    /\ ev.country_code = row.country_code
    /\ ev.risk_type = row.risk_type
    /\ ev.today_count = row.today
    /\ ev.baseline_mean = row.baseline
    /\ ev.delta_percent = row.delta_percent

\* C20: the loader emits one SpikeEvent for exactly the rows of the file
\* with today >= min_today, baseline >= min_baseline and delta_percent >=
\* min_delta_percent (signed), by delta_percent descending; so a record of
\* negative delta_percent that detect_spikes kept under its absolute
\* threshold is not emitted for any min_delta_percent >= 0.
C20_SignedLoaderFilter ==
    Loaded =>
        /\ \A i \in 1..Len(csv.rows) :
              Cardinality({j \in 1..Len(events) :
                              IsEventOf(events[j], csv.rows[i])})
                  = IF PassesLoader(csv.rows[i]) THEN 1 ELSE 0
        /\ \A j \in 1..Len(events) :
              \E i \in 1..Len(csv.rows) : IsEventOf(events[j], csv.rows[i])
        /\ \A a, b \in 1..Len(events) :
              a < b => AtLeast(events[a].delta_percent, events[b].delta_percent)
        /\ min_delta_percent.num >= 0 =>
              \A j \in 1..Len(events) :
                  ~(events[j].delta_percent.kind = "num"
                    /\ events[j].delta_percent.num < 0)

\* C20 witness: detect_spikes returned a record of negative delta_percent
\* under a positive min_delta_rel together with an increase; the loader,
\* with min_delta_percent >= 0, emitted the increase and not the decrease.
C20_Witness ==
    /\ Loaded
    /\ min_delta_rel.num > 0
    /\ min_delta_percent.num >= 0
    /\ events # << >>
    /\ \E i \in 1..Len(csv.rows) :
          /\ csv.rows[i].delta_percent.kind = "num"
          /\ csv.rows[i].delta_percent.num < 0
          /\ csv.rows[i].today >= min_today
          /\ \A j \in 1..Len(events) : ~IsEventOf(events[j], csv.rows[i])

-----------------------------------------------------------------------------
(* Claims about the run from the command line (checked under SpecMain) *)

\* detect_spikes has returned to main, which may have written the file.
DetectedInMain == pc \in {"detect_spikes_returned", "main_returned"}

\* C21: in a table that graphml_to_daily_counts returned each (date,
\* country, risk) key occurs once and its count is >= 1, so every baseline
\* (window mean or fallback) that detect_spikes computes from it is >= 1,
\* and with min_baseline_mean <= 1.0 the minimum-baseline filter removes no
\* pair: every pair with a baseline whose delta passes the delta threshold
\* is returned.
C21_BaselineAtLeastOne ==
    /\ \A i, j \in 1..Len(df_daily) :
          /\ df_daily[i].count >= 1
          /\ (/\ df_daily[i].date = df_daily[j].date
              /\ df_daily[i].country_code = df_daily[j].country_code
              /\ df_daily[i].risk_type = df_daily[j].risk_type) => i = j
    /\ DetectedInMain =>
          \A k \in 1..Len(merged) :
              merged[k].baseline.kind = "num" =>
                  /\ merged[k].baseline.num >= merged[k].baseline.den
                  /\ (/\ min_baseline_mean.num <= min_baseline_mean.den
                      /\ AbsDeltaAtLeast(merged[k].today, merged[k].baseline,
                                         min_delta_rel))
                         => Returned(merged[k])

\* C21 witness: an end-to-end run with min_baseline_mean = 1.0 in which a
\* pair with the least possible baseline, 1, was returned.
C21_Witness ==
    /\ DetectedInMain
    /\ G # << >>
    /\ min_baseline_mean = [kind |-> "num", num |-> 1, den |-> 1]
    /\ \E k \in 1..Len(spikes) :
          spikes[k].baseline = [kind |-> "num", num |-> 1, den |-> 1]

=============================================================================
